---- MODULE Spec2Model ----
(***************************************************************************)
(* Model of the browser-storage data layer of the ATS dashboard:           *)
(*   StorageService (getAll / setAll / validateItem / upsert / delete /    *)
(*   createBackup / restoreFromBackup / setupAutoBackup),                  *)
(*   SecureStorage + SecureSession (encrypt / decrypt / get / set),        *)
(*   InputValidator, the Candidate and Job models, CandidateRepository,    *)
(*   JobRepository and SeedService.                                        *)
(*                                                                         *)
(* Strings.  A free-text field (name, title) is a sequence of characters.  *)
(* Enumerated fields (status, email, ...) are atoms.  Hangul text cannot   *)
(* be written in a TLA+ string, so an atom or character whose name starts  *)
(* with "ko_" stands for the Hangul text given in the comment next to it.  *)
(* Time is Date.now() in milliseconds, on a scale that starts shortly before *)
(* the page's first load.                                                   *)
(***************************************************************************)
EXTENDS Integers, Sequences, FiniteSets, TLC

-----------------------------------------------------------------------------
(* Bounds of the model *)

MaxOps == 4         \* number of steps of a run (operations and clock advances)

(* Program constants *)

maxAge == 24 * 60 * 60 * 1000               \* SecureSession.maxAge
BackupRetention == 7 * 24 * 60 * 60 * 1000  \* restoreFromBackup
BackupInterval == 5 * 60 * 1000             \* setupAutoBackup
maxLength == 10000                          \* validateItem -> validateInput
DayMs == 24 * 60 * 60 * 1000                \* toISOString().split('T')[0]

Namespaces == {"candidates", "jobs", "interviews"}

-----------------------------------------------------------------------------
(* Characters and atoms *)

HangulChars == {"ko_hong", "ko_gil", "ko_dong"}      \* the letters of the name Hong Gil-dong
AngleChars == {"<", ">"}
SqlMetaChars == {"'", "\"", ";", "*"}
Alphabet == {"H", "o", "n", "g", "b", "a", "<", ">", "'"} \cup HangulChars

\* Candidate.validate: validStatuses (9 values)
validStatuses ==
    { "ko_singyu",            \* new
      "ko_seoryugeomto",      \* document review
      "ko_seoryutonggwa",     \* document passed
      "ko_myeonjeopdaegi",    \* interview pending
      "ko_myeonjeopjinhaeng", \* interviewing
      "ko_choejonggeomto",    \* final review
      "ko_choejonghapgyeok",  \* hired
      "ko_bulhapgyeok",       \* rejected
      "ko_boryu" }            \* on hold

DefaultCandidateStatus == "ko_singyu"
DefaultJobStatus == "ko_jinhaengjung"        \* in progress
DefaultEmploymentType == "ko_jeonggyujik"    \* permanent
DefaultAvatar == "ko_emoji_person"           \* U+1F464

\* the status values of a job (in progress, closed, draft) and of an interview
\* (scheduled, completed, cancelled)
JobStatuses == {DefaultJobStatus, "ko_magam", "ko_imsijeojang"}
InterviewStatuses == {"ko_yejeong", "ko_wanryo", "ko_chwiso"}

HangulAtoms ==
    validStatuses \cup JobStatuses \cup InterviewStatuses
      \cup {DefaultEmploymentType, DefaultAvatar, "ko_engineer", "ko_1cha"}

\* absent values, one per type (JS: undefined / null / '' / NaN)
NoId == 0
NoTime == 0
NoDate == 0
NoText == << >>
NoAtom == ""
NaN == 0 - 1000

\* The field names of the records of the model, by type.
TextFields == {"name", "title"}
AtomFields == {"email", "phone", "position", "status", "avatar",
               "department", "employmentType", "type"}

-----------------------------------------------------------------------------
(* InputValidator *)

\* /[<>]/g replaced by ''
StripAngles(s) == SelectSeq(s, LAMBDA c : c \notin AngleChars)

\* detectSQLInjection: over Alphabet only the third pattern ('|"|;|--|*|...) can
\* match; no SQL keyword and no digit can be spelled with these characters.
detectSQLInjection(s) == \E i \in 1..Len(s) : s[i] \in SqlMetaChars

\* detectScript: <script, javascript:, on...=, <iframe, <object, <embed cannot
\* be spelled over Alphabet.
detectScript(s) == FALSE

\* validateInput(value, {maxLength: 10000, allowHTML: false, allowSQL: false}).valid
validateInput(s) ==
    /\ Len(s) <= maxLength
    /\ ~detectScript(s)
    /\ ~detectSQLInjection(s)

-----------------------------------------------------------------------------
(* Models *)

\* new Date().toISOString().split('T')[0]: the calendar day of a time stamp
Today(now) == (now \div DayMs) + 1

\* Number.isFinite(data.score)
IsFinite(x) == x # NaN

\* new Candidate(data).  skills, evaluations and resume are carried along
\* unchanged by every operation of this model and are left out.
\* createdAt / updatedAt of data are not copied by the constructor.
Candidate(data, now) ==
    [ id          |-> data.id,                 \* data.id || null
      name        |-> data.name,               \* data.name || ''
      email       |-> data.email,
      phone       |-> data.phone,
      position    |-> data.position,
      status      |-> IF data.status # NoAtom THEN data.status ELSE DefaultCandidateStatus,
      appliedDate |-> IF data.appliedDate # NoDate THEN data.appliedDate ELSE Today(now),
      score       |-> IF IsFinite(data.score) THEN data.score ELSE 0,
      avatar      |-> IF data.avatar # NoAtom THEN data.avatar ELSE DefaultAvatar,
      history     |-> data.history ]           \* Array.isArray(data.history) ? ... : []

\* the regular expressions of Candidate.validate, on the atoms of the model
EmailWellFormed(e) == e \in {"hong@example.com"}
PhoneWellFormed(p) == p \in {"010-1234-5678"}

\* Candidate.validate() = null, the variant without the status check
CandidateValidNoStatus(c) ==
    /\ Len(c.name) >= 2
    /\ c.email # NoAtom
    /\ EmailWellFormed(c.email)
    /\ c.position # NoAtom
    /\ (c.phone # NoAtom => PhoneWellFormed(c.phone))
    /\ ~(c.score < 0 \/ c.score > 100)

\* Candidate.validate() = null
CandidateValid(c) ==
    /\ Len(c.name) >= 2              \* !name || name.trim().length < 2
    /\ c.email # NoAtom
    /\ EmailWellFormed(c.email)
    /\ c.position # NoAtom
    /\ (c.phone # NoAtom => PhoneWellFormed(c.phone))
    /\ ~(c.score < 0 \/ c.score > 100)
    /\ c.status \in validStatuses

\* new Job(data); the free-text fields other than title are left out.
Job(data, now) ==
    [ id             |-> data.id,
      title          |-> data.title,
      department     |-> data.department,
      status         |-> IF data.status # NoAtom THEN data.status ELSE DefaultJobStatus,
      createdDate    |-> IF data.createdDate # NoDate THEN data.createdDate ELSE Today(now),
      employmentType |-> IF data.employmentType # NoAtom THEN data.employmentType
                         ELSE DefaultEmploymentType ]

\* toJSON(): { ...this }.  A stored item also has the two stamps; an item that
\* has no stamp carries NoTime in that field.
toJSON(m) ==
    [k \in DOMAIN m \cup {"createdAt", "updatedAt"} |->
        IF k \in DOMAIN m THEN m[k] ELSE NoTime]

-----------------------------------------------------------------------------
(* StorageService.validateItem *)

validateItem(item, now) ==
    LET cleaned == [k \in DOMAIN item |->
                      IF k \in TextFields /\ ~validateInput(item[k])
                      THEN StripAngles(item[k])
                      ELSE item[k]]
    IN  IF cleaned.updatedAt = NoTime
        THEN [cleaned EXCEPT !.updatedAt = now]
        ELSE cleaned

\* btoa() accepts only code points up to U+00FF: the JSON text of the item
\* has no Hangul (and no emoji)
IsLatin1Item(item) ==
    \A k \in DOMAIN item :
        /\ (k \in TextFields => \A i \in 1..Len(item[k]) : item[k][i] \notin HangulChars)
        /\ (k \in AtomFields => item[k] \notin HangulAtoms)

IsLatin1(data) == \A i \in 1..Len(data) : IsLatin1Item(data[i])

-----------------------------------------------------------------------------
(* localStorage entries of one namespace.                                  *)
(*   sec  ats_session_ats_<namespace>   written by SecureSession.set       *)
(*   wf   wf:<namespace>                                                   *)
(*   bak  backup_wf:<namespace>                                            *)
(*   emg  wf:<namespace>_emergency                                         *)
(* An entry is absent (NoEntry), a string that does not decode or parse    *)
(* (Garbage), or the encoding of a value.  The value is a list of items,   *)
(* or it is not an array: kind "jsonobj" in wf and bak (such as {}),       *)
(* "b64obj" in sec (a payload whose data is an object), "jsonbad" in bak   *)
(* (a snapshot whose data is an object).                                   *)

NoEntry == [kind |-> "none"]
Garbage == [kind |-> "garbage"]
NotArrayEntry == [kind |-> "jsonobj"]
EmptyStore == [sec |-> NoEntry, wf |-> NoEntry, bak |-> NoEntry, emg |-> NoEntry]

\* JSON.stringify(value) / JSON.parse(raw)
Stringify(value) == [kind |-> "json", val |-> value]
ParseOk(raw) == raw.kind \in {"json", "jsonobj", "jsonbad"}

\* no localStorage.setItem raises QuotaExceededError
NoQuotaError == {}

-----------------------------------------------------------------------------
(* SecureSession *)

\* the character codes that generateChecksum runs over: the model keeps one
\* code per item instead of the whole JSON text
CharCodes(data) == [i \in 1..Len(data) |-> ((data[i].id % 65536) + (data[i].updatedAt % 65536)) % 65536]

\* hash = ((hash << 5) - hash) + char; hash = hash & hash, i.e. hash * 31 + char
\* in 32 bits, kept as <<high half, low half>> of 16 bits each
RECURSIVE HashFrom(_, _, _)
HashFrom(codes, i, h) ==
    IF i > Len(codes) THEN h
    ELSE LET lo == h[2] * 31 + codes[i]
             hi == h[1] * 31 + (lo \div 65536)
         IN  HashFrom(codes, i + 1, <<hi % 65536, lo % 65536>>)

generateChecksum(data) == HashFrom(CharCodes(data), 1, <<0, 0>>)

\* encrypt(data): btoa(JSON.stringify({data, timestamp, checksum}))
encrypt(data, now) ==
    [kind |-> "b64", data |-> data, timestamp |-> now,
     checksum |-> generateChecksum(data)]

\* decrypt(encryptedData): the data, or null (ok = FALSE); array tells whether
\* the data is an array (data is << >> when it is not)
decrypt(e, now) ==
    IF e.kind \notin {"b64", "b64obj"}
    THEN [ok |-> FALSE, data |-> << >>, array |-> FALSE]   \* atob / JSON.parse throws
    ELSE IF now - e.timestamp > maxAge
    THEN [ok |-> FALSE, data |-> << >>, array |-> FALSE]   \* 'Session expired'
    ELSE IF e.kind = "b64obj"
    THEN [ok |-> TRUE, data |-> << >>, array |-> FALSE]
    ELSE IF e.checksum # generateChecksum(e.data)
    THEN [ok |-> FALSE, data |-> << >>, array |-> FALSE]
    ELSE [ok |-> TRUE, data |-> e.data, array |-> TRUE]

\* SecureSession.get(key, persistent = true): value or null, and the entry left behind
SessionGet(e, now) ==
    IF e.kind = "none" THEN [ok |-> FALSE, data |-> << >>, array |-> FALSE, entry |-> e]
    ELSE LET d == decrypt(e, now)
         IN  IF d.ok THEN [ok |-> TRUE, data |-> d.data, array |-> d.array, entry |-> e]
             ELSE [ok |-> FALSE, data |-> << >>, array |-> FALSE,
                   entry |-> NoEntry]                                 \* removeItem

\* SecureStorage.setItem(key, value): true and the new entry, or false (btoa
\* raises InvalidCharacterError, or setItem raises QuotaExceededError)
SecureSetItem(e, value, now, full) ==
    IF IsLatin1(value) /\ "sec" \notin full
    THEN [ok |-> TRUE, entry |-> encrypt(value, now)]
    ELSE [ok |-> FALSE, entry |-> e]

-----------------------------------------------------------------------------
(* StorageService *)

\* restoreFromBackup() without the check of the snapshot's age
restoreFromBackupAnyAge(bak, now) ==
    IF bak.kind = "none" THEN [ok |-> FALSE, data |-> << >>, array |-> FALSE]
    ELSE IF ~ParseOk(bak) THEN [ok |-> FALSE, data |-> << >>, array |-> FALSE]
    ELSE IF bak.kind = "jsonobj" THEN [ok |-> TRUE, data |-> << >>, array |-> TRUE]
    ELSE IF bak.kind = "jsonbad" THEN [ok |-> TRUE, data |-> << >>, array |-> FALSE]
    ELSE [ok |-> TRUE, data |-> bak.val.data, array |-> TRUE]

\* restoreFromBackup(): backup.data || [], or null (ok = FALSE); array tells
\* whether what is returned is an array (data is << >> when it is not)
restoreFromBackup(bak, now) ==
    IF bak.kind = "none" THEN [ok |-> FALSE, data |-> << >>, array |-> FALSE]
    ELSE IF ~ParseOk(bak) THEN [ok |-> FALSE, data |-> << >>, array |-> FALSE]
    ELSE IF bak.kind = "jsonobj"                  \* {}: no timestamp, no data
    THEN [ok |-> TRUE, data |-> << >>, array |-> TRUE]
    ELSE IF now - bak.val.timestamp > BackupRetention
    THEN [ok |-> FALSE, data |-> << >>, array |-> FALSE]
    ELSE IF bak.kind = "jsonbad"                  \* {timestamp, data: {...}}
    THEN [ok |-> TRUE, data |-> << >>, array |-> FALSE]
    ELSE [ok |-> TRUE, data |-> bak.val.data, array |-> TRUE]

\* createBackup(data) that leaves a snapshot that is there in place
createBackupKeepFirst(st, data, now, full) ==
    IF "bak" \in full \/ st.bak.kind # "none" THEN st
    ELSE [st EXCEPT !.bak = Stringify([timestamp |-> now, data |-> data])]

\* createBackup(data)
createBackup(st, data, now, full) ==
    IF "bak" \in full THEN st
    ELSE [st EXCEPT !.bak = Stringify([timestamp |-> now, data |-> data])]

\* getAll(): what is returned and the entries left behind; array tells whether
\* what is returned is an array (ret is << >> when it is not)
getAll(st, now, full) ==
    LET g == SessionGet(st.sec, now)
        st1 == [st EXCEPT !.sec = g.entry]
    IN  IF g.ok /\ g.array THEN [ret |-> g.data, st |-> st1, array |-> TRUE]
        ELSE IF st1.wf.kind = "none" THEN [ret |-> << >>, st |-> st1, array |-> TRUE]
        ELSE IF ~ParseOk(st1.wf)
             THEN LET r == restoreFromBackup(st1.bak, now)
                  IN  [ret |-> IF r.ok THEN r.data ELSE << >>, st |-> st1,
                       array |-> (r.ok => r.array)]
        ELSE IF st1.wf.kind = "jsonobj"            \* parsed.length is undefined
             THEN [ret |-> << >>, st |-> st1, array |-> TRUE]
        ELSE LET parsed == st1.wf.val
             IN  IF Len(parsed) > 0
                 THEN LET w == SecureSetItem(st1.sec, parsed, now, full)
                      IN  [ret |-> parsed,
                           st |-> [st1 EXCEPT !.sec = w.entry, !.wf = NoEntry],
                           array |-> TRUE]
                 ELSE [ret |-> parsed, st |-> st1, array |-> TRUE]

\* setAll(items) that gives up when the write to wf:<namespace> fails
setAllNoEmergency(st, items, now, full) ==
    LET validated == [i \in 1..Len(items) |-> validateItem(items[i], now)]
        w == SecureSetItem(st.sec, validated, now, full)
    IN  IF w.ok THEN createBackup([st EXCEPT !.sec = w.entry], validated, now, full)
        ELSE IF "wf" \notin full
             THEN createBackup([st EXCEPT !.wf = Stringify(validated)], validated, now, full)
        ELSE st

\* setAll(items)
setAll(st, items, now, full) ==
    LET validated == [i \in 1..Len(items) |-> validateItem(items[i], now)]
        w == SecureSetItem(st.sec, validated, now, full)
    IN  IF w.ok THEN createBackup([st EXCEPT !.sec = w.entry], validated, now, full)
        ELSE IF "wf" \notin full
             THEN createBackup([st EXCEPT !.wf = Stringify(validated)], validated, now, full)
        ELSE IF "emg" \notin full
             THEN [st EXCEPT !.emg = Stringify(items)]
        ELSE st

\* generateId(): Date.now() + Math.random().toString(36).substr(2, 9), a string;
\* string ids are the negative numbers of the model, rnd is the random part
generateId(now, rnd) == 0 - (now + rnd)

\* list.findIndex(i => i.id === id), 0 when there is none
RECURSIVE FindFrom(_, _, _)
FindFrom(list, id, i) ==
    IF i > Len(list) THEN 0
    ELSE IF list[i].id = id THEN i
    ELSE FindFrom(list, id, i + 1)

\* a findIndex that compares nothing and finds nothing
findIndexNever(list, id) == 0

findIndex(list, id) == FindFrom(list, id, 1)

\* { ...old, ...item, updatedAt: now }
Merged(old, item, now) ==
    [k \in DOMAIN old \cup DOMAIN item |->
        IF k = "updatedAt" THEN now
        ELSE IF k = "createdAt"
             THEN (IF item.createdAt # NoTime THEN item.createdAt ELSE old.createdAt)
        ELSE IF k \in DOMAIN item THEN item[k]
        ELSE old[k]]

\* the second half of upsert(item) if it took the list from localStorage
\* again at the time of its write, instead of the list read earlier
upsertCoordinated(st, list, validatedItem, now, rnd, full) ==
    LET fresh == getAll(st, now, full).ret
        idx == findIndex(fresh, validatedItem.id)
        added == [validatedItem EXCEPT
                    !.id = IF @ = NoId THEN generateId(now, rnd) ELSE @,
                    !.createdAt = IF @ # NoTime THEN @ ELSE now]
    IN  IF idx >= 1
        THEN [ret |-> validatedItem,
              st |-> setAll(st, [fresh EXCEPT ![idx] = Merged(fresh[idx], validatedItem, now)],
                            now, full),
              threw |-> FALSE,
              list |-> [fresh EXCEPT ![idx] = Merged(fresh[idx], validatedItem, now)]]
        ELSE [ret |-> added, st |-> setAll(st, Append(fresh, added), now, full),
              threw |-> FALSE, list |-> Append(fresh, added)]

\* upsert(item) from "const idx = list.findIndex" on, for the list that its
\* getAll() returned: the entries it leaves behind and the record it returns
upsertWrite(st, list, validatedItem, now, rnd, full) ==
    LET idx == findIndex(list, validatedItem.id)
        added == [validatedItem EXCEPT
                    !.id = IF @ = NoId THEN generateId(now, rnd) ELSE @,
                    !.createdAt = IF @ # NoTime THEN @ ELSE now]
    IN  IF idx >= 1
        THEN [ret |-> validatedItem,
              st |-> setAll(st, [list EXCEPT ![idx] = Merged(list[idx], validatedItem, now)],
                            now, full),
              threw |-> FALSE,
              list |-> [list EXCEPT ![idx] = Merged(list[idx], validatedItem, now)]]
        ELSE [ret |-> added, st |-> setAll(st, Append(list, added), now, full),
              threw |-> FALSE, list |-> Append(list, added)]

\* upsert(item) once getAll() has returned g
upsertRead(g, validatedItem, now, rnd, full) ==
    IF ~g.array
    THEN [ret |-> validatedItem, st |-> g.st, threw |-> TRUE, list |-> << >>]
    ELSE upsertWrite(g.st, g.ret, validatedItem, now, rnd, full)

\* upsert(item): the item returned and the entries left behind.  threw: the
\* call raised Error('Failed to save item: ...'), which it does when something
\* inside its try block throws: list.findIndex on a getAll() that is no array.
\* A storage error is not among these: setAll() returns normally.
upsert(st, item, now, rnd, full) ==
    upsertRead(getAll(st, now, full), validateItem(item, now), now, rnd, full)

\* delete(id): true / false and the entries left behind.  threw: the call
\* raised Error('Failed to delete item: ...') (list.filter on a getAll() that
\* is no array)
deleteRead(g, id, now, full) ==
    LET filtered == SelectSeq(g.ret, LAMBDA i : i.id # id)
    IN  IF ~g.array
        THEN [ret |-> FALSE, st |-> g.st, threw |-> TRUE, list |-> << >>]
        ELSE IF Len(g.ret) = Len(filtered)
        THEN [ret |-> FALSE, st |-> g.st, threw |-> FALSE, list |-> << >>]
        ELSE [ret |-> TRUE, st |-> setAll(g.st, filtered, now, full), threw |-> FALSE,
              list |-> filtered]

delete(st, id, now, full) == deleteRead(getAll(st, now, full), id, now, full)

-----------------------------------------------------------------------------
(* Inputs *)

\* the scenario of the specification: {name: "Hong", email, position, status}
HongInput ==
    [ id |-> NoId, name |-> <<"H", "o", "n", "g">>, email |-> "hong@example.com",
      phone |-> NoAtom, position |-> "Engineer", status |-> "ko_singyu",
      appliedDate |-> NoDate, score |-> NaN, avatar |-> NoAtom, history |-> << >> ]

BadStatusInput == [HongInput EXCEPT !.status = "not-a-real-status"]

\* <b>O'N : has a quote, so the validator flags it
TagInput == [HongInput EXCEPT !.name = <<"<", "b", ">", "O", "'", "N">>, !.status = NoAtom]

\* a complete record with an id of its own
KoInput ==
    [ id |-> 7, name |-> <<"ko_hong", "ko_gil", "ko_dong">>, email |-> "hong@example.com",
      phone |-> "010-1234-5678", position |-> "ko_engineer", status |-> "ko_seoryugeomto",
      appliedDate |-> 1, score |-> 85, avatar |-> NoAtom, history |-> << >> ]

CandidateInputs == {HongInput, BadStatusInput, TagInput, KoInput}

\* a job whose text is all ASCII, and one that takes the Hangul defaults
AsciiJobInput ==
    [ id |-> NoId, title |-> <<"H", "o", "n", "g">>, department |-> "Eng",
      status |-> "open", createdDate |-> NoDate, employmentType |-> "full-time" ]

KoJobInput == [AsciiJobInput EXCEPT !.status = NoAtom, !.employmentType = NoAtom]

JobInputs == {AsciiJobInput, KoJobInput}

\* the bundled fixture arrays (sample-candidates.js, sample-jobs.js,
\* sample-interviews.js), one record each
sampleCandidates == << toJSON([KoInput EXCEPT !.id = 1, !.avatar = DefaultAvatar]) >>
sampleJobs == << toJSON([KoJobInput EXCEPT !.id = 1, !.createdDate = 1,
                          !.status = DefaultJobStatus,
                          !.employmentType = DefaultEmploymentType]) >>
sampleInterviews ==
    << [ id |-> 1, candidateId |-> 1, status |-> "ko_yejeong", type |-> "ko_1cha",
         createdAt |-> NoTime, updatedAt |-> NoTime ] >>

Fixtures(ns) ==
    CASE ns = "candidates" -> sampleCandidates
      [] ns = "jobs" -> sampleJobs
      [] ns = "interviews" -> sampleInterviews

MissingId == 999                   \* an id that no record has
StartTime == 1000                  \* Date.now() when the page is first loaded
RandomValues == {1}
ClockSteps == {1, maxAge + 1, BackupRetention + 1}
MaxNow == 3 * BackupRetention      \* the clock stays within 32 bits

-----------------------------------------------------------------------------
(* State *)

VARIABLES
    ls,      \* localStorage: the four entries of every namespace
    now,     \* Date.now()
    due,     \* the namespaces whose 5-minute backup timer has elapsed
    h1,      \* the last operation: what was called, with what, and what it returned
    h2,      \* the operation before h1
    nops,    \* steps so far
    detail,  \* the CandidateDetail.save() calls under way: where each is, what it holds
    tabs,    \* the upsert() under way in each tab: where it is, what it holds
    boot,    \* App.initialize(): which class, where it is, how far seed() has come
    kv,      \* a Storage object: its adapter and the entry of one key in each of the stores
    router,  \* Router: currentPage, loadingPromise and the loadPage calls under way
    auth,    \* the session keys of AuthService in localStorage and sessionStorage
    emitter  \* EventEmitter: the listeners of one event and the emit calls under way

vars == <<ls, now, due, h1, h2, nops, detail, tabs, boot, kv, router, auth, emitter>>

\* the states of these objects in the sections that do not use them
NoKv == [adapter |-> "none"]
NoRouter == [pc |-> "none"]
NoAuth == [pc |-> "none"]
NoEmitter == [pc |-> "none"]

\* App.initialize() has not been called: the states of the other sections
NotBooting == [pc |-> "none", app |-> "none", user |-> TRUE, seeded |-> 0]

\* the tabs that share one localStorage
Tabs == {1, 2}
TabIdle == [pc |-> "idle"]

\* the calls of CandidateDetail.save() that can be under way at once
DetailCalls == {1, 2}
Idle == [pc |-> "idle", history |-> << >>]

NoOp == [op |-> "none", ns |-> "none"]

\* what getAll() of a store would return at time t (no entry is changed)
Stored(st, t) == getAll(st, t, NoQuotaError).ret

Init ==
    /\ ls = [ns \in Namespaces |-> EmptyStore]
    /\ now = StartTime
    /\ due = {}
    /\ h1 = NoOp
    /\ h2 = NoOp
    /\ nops = 0
    /\ detail = [p \in DetailCalls |-> Idle]
    /\ tabs = [t \in Tabs |-> TabIdle]
    /\ kv = NoKv
    /\ router = NoRouter
    /\ auth = NoAuth
    /\ emitter = NoEmitter
    /\ boot = NotBooting

\* the run has operations left
CanRun == nops < MaxOps

\* rec is the operation that has just run
Record(rec) ==
    /\ nops' = nops + 1
    /\ h1' = rec
    /\ h2' = h1

-----------------------------------------------------------------------------
(* CandidateRepository *)

\* the Candidate objects that a caller holds: the one the last save returned
ReturnedCandidates ==
    IF h1.op = "save" /\ h1.ns = "candidates" /\ h1.ok THEN {h1.ret} ELSE {}

\* save(candidate), while localStorage.setItem throws QuotaExceededError for
\* the entries in full
CandidateSaveIn(data, full) ==
    LET c == Candidate(data, now)
        withId == [c EXCEPT !.id = IF @ = NoId THEN now ELSE @]    \* if (!c.id) c.id = Date.now()
        pre == ls["candidates"]
    IN  IF ~CandidateValid(c)
        THEN /\ CanRun
             /\ Record([op |-> "save", ns |-> "candidates", arg |-> data, ok |-> FALSE,
                        pre |-> pre, post |-> pre, at |-> now, full |-> full])
             /\ UNCHANGED <<ls, now, due, detail, tabs, boot, kv, router, auth, emitter>>
        ELSE \E rnd \in RandomValues :
               LET u == upsert(pre, toJSON(withId), now, rnd, full)
               IN  /\ CanRun
                   /\ ls' = [ls EXCEPT !["candidates"] = u.st]
                   /\ Record([op |-> "save", ns |-> "candidates", arg |-> data, ok |-> ~u.threw, list |-> u.list,
                              ret |-> withId, pre |-> pre, post |-> u.st, at |-> now,
                              full |-> full])
                   /\ UNCHANGED <<now, due, detail, tabs, boot, kv, router, auth, emitter>>

\* findAll()
CandidateFindAll ==
    LET pre == ls["candidates"]
        g == getAll(pre, now, NoQuotaError)
    IN  /\ CanRun
        /\ ls' = [ls EXCEPT !["candidates"] = g.st]
        /\ Record([op |-> "findAll", ns |-> "candidates", items |-> g.ret,
                   ret |-> [i \in 1..Len(g.ret) |-> Candidate(g.ret[i], now)],
                   pre |-> pre, post |-> g.st, at |-> now])
        /\ UNCHANGED <<now, due, detail, tabs, boot, kv, router, auth, emitter>>

\* findById(id): ret is << c >> for the candidate found, << >> for null
CandidateFindById(id) ==
    LET pre == ls["candidates"]
        g == getAll(pre, now, NoQuotaError)
        all == [i \in 1..Len(g.ret) |-> Candidate(g.ret[i], now)]
        idx == findIndex(all, id)
    IN  /\ CanRun
        /\ ls' = [ls EXCEPT !["candidates"] = g.st]
        /\ Record([op |-> "findById", ns |-> "candidates", arg |-> id,
                   ret |-> IF idx >= 1 THEN << all[idx] >> ELSE << >>,
                   pre |-> pre, post |-> g.st, at |-> now])
        /\ UNCHANGED <<now, due, detail, tabs, boot, kv, router, auth, emitter>>

\* delete(id): the repository drops what StorageService.delete returns (sret)
CandidateDeleteIn(id, full) ==
    LET pre == ls["candidates"]
        d == delete(pre, id, now, full)
    IN  /\ CanRun
        /\ ls' = [ls EXCEPT !["candidates"] = d.st]
        /\ Record([op |-> "delete", ns |-> "candidates", arg |-> id, sret |-> d.ret,
                   ok |-> ~d.threw, list |-> d.list, pre |-> pre, post |-> d.st, at |-> now, full |-> full])
        /\ UNCHANGED <<now, due, detail, tabs, boot, kv, router, auth, emitter>>

\* the ids a caller can know of
KnownIds(ns) ==
    {Stored(ls[ns], now)[i].id : i \in 1..Len(Stored(ls[ns], now))}
      \cup (IF h1.op = "save" /\ h1.ns = ns /\ h1.ok THEN {h1.ret.id} ELSE {})
      \cup {MissingId}

-----------------------------------------------------------------------------
(* JobRepository *)

\* save(job): no validation
JobSaveIn(data, full) ==
    LET j == Job(data, now)
        withId == [j EXCEPT !.id = IF @ = NoId THEN now ELSE @]
        pre == ls["jobs"]
    IN  \E rnd \in RandomValues :
          LET u == upsert(pre, toJSON(withId), now, rnd, full)
          IN  /\ CanRun
              /\ ls' = [ls EXCEPT !["jobs"] = u.st]
              /\ Record([op |-> "save", ns |-> "jobs", arg |-> data, ok |-> ~u.threw, list |-> u.list,
                         ret |-> withId, pre |-> pre, post |-> u.st, at |-> now,
                         full |-> full])
              /\ UNCHANGED <<now, due, detail, tabs, boot, kv, router, auth, emitter>>

\* findAll()
JobFindAll ==
    LET pre == ls["jobs"]
        g == getAll(pre, now, NoQuotaError)
    IN  /\ CanRun
        /\ ls' = [ls EXCEPT !["jobs"] = g.st]
        /\ Record([op |-> "findAll", ns |-> "jobs", items |-> g.ret,
                   ret |-> [i \in 1..Len(g.ret) |-> Job(g.ret[i], now)],
                   pre |-> pre, post |-> g.st, at |-> now])
        /\ UNCHANGED <<now, due, detail, tabs, boot, kv, router, auth, emitter>>

\* delete(id)
JobDeleteIn(id, full) ==
    LET pre == ls["jobs"]
        d == delete(pre, id, now, full)
    IN  /\ CanRun
        /\ ls' = [ls EXCEPT !["jobs"] = d.st]
        /\ Record([op |-> "delete", ns |-> "jobs", arg |-> id, sret |-> d.ret,
                   ok |-> ~d.threw, list |-> d.list, pre |-> pre, post |-> d.st, at |-> now, full |-> full])
        /\ UNCHANGED <<now, due, detail, tabs, boot, kv, router, auth, emitter>>

-----------------------------------------------------------------------------
(* SeedService *)

\* if ((store.getAll() || []).length === 0) store.setAll(fixtures)
SeedOne(st, ns, t) ==
    LET g == getAll(st, t, NoQuotaError)
    IN  IF Len(g.ret) = 0 THEN setAll(g.st, Fixtures(ns), t, NoQuotaError) ELSE g.st

\* seed(): pre and post are the whole of localStorage
Seed ==
    /\ CanRun
    /\ ls' = [ns \in Namespaces |-> SeedOne(ls[ns], ns, now)]
    /\ Record([op |-> "seed", ns |-> "all", pre |-> ls, post |-> ls', at |-> now])
    /\ UNCHANGED <<now, due, detail, tabs, boot, kv, router, auth, emitter>>

-----------------------------------------------------------------------------
(* The environment *)

\* setInterval callback of setupAutoBackup
AutoBackup(ns) ==
    LET pre == ls[ns]
        g == getAll(pre, now, NoQuotaError)
        post == IF Len(g.ret) > 0 THEN createBackup(g.st, g.ret, now, NoQuotaError) ELSE g.st
    IN  /\ CanRun
        /\ ns \in due
        /\ due' = due \ {ns}
        /\ ls' = [ls EXCEPT ![ns] = post]
        /\ Record([op |-> "autoBackup", ns |-> ns, pre |-> pre, post |-> post, at |-> now])
        /\ UNCHANGED <<now, detail, tabs, boot, kv, router, auth, emitter>>

\* time passes; after 5 minutes or more every backup timer has elapsed
Tick(d) ==
    /\ CanRun
    /\ now + d <= MaxNow
    /\ nops' = nops + 1
    /\ now' = now + d
    /\ due' = IF d >= BackupInterval THEN Namespaces ELSE due
    /\ UNCHANGED <<ls, h1, h2, detail, tabs, boot, kv, router, auth, emitter>>

\* a stored value is damaged from outside the program (the corrupted primary
\* of the backup scenarios): the entry no longer decodes or parses
Corrupt(ns, key) ==
    LET pre == ls[ns]
        post == [pre EXCEPT ![key] = Garbage]
    IN  /\ CanRun
        /\ pre[key].kind \notin {"none", "garbage"}
        /\ ls' = [ls EXCEPT ![ns] = post]
        /\ Record([op |-> "corrupt", ns |-> ns, arg |-> key, pre |-> pre, post |-> post,
                   at |-> now])
        /\ UNCHANGED <<now, due, detail, tabs, boot, kv, router, auth, emitter>>

-----------------------------------------------------------------------------

Next ==
    \/ \E data \in CandidateInputs \cup ReturnedCandidates : CandidateSaveIn(data, NoQuotaError)
    \/ CandidateFindAll
    \/ \E id \in KnownIds("candidates") : CandidateFindById(id)
    \/ \E id \in KnownIds("candidates") : CandidateDeleteIn(id, NoQuotaError)
    \/ \E data \in JobInputs : JobSaveIn(data, NoQuotaError)
    \/ JobFindAll
    \/ \E id \in KnownIds("jobs") : JobDeleteIn(id, NoQuotaError)
    \/ Seed
    \/ \E ns \in Namespaces : AutoBackup(ns)
    \/ \E d \in ClockSteps : Tick(d)
    \/ \E ns \in Namespaces, key \in {"sec", "wf"} : Corrupt(ns, key)

Spec == Init /\ [][Next]_vars

-----------------------------------------------------------------------------
(* The repositories while localStorage is full: setItem throws             *)
(* QuotaExceededError for some entries, or for all.                        *)

QuotaCases == {NoQuotaError, {"wf"}, {"sec", "wf", "bak"}, {"sec", "wf", "bak", "emg"}}

NextQuota ==
    \/ \E data \in {HongInput, KoInput}, full \in QuotaCases : CandidateSaveIn(data, full)
    \/ \E id \in KnownIds("candidates"), full \in QuotaCases : CandidateDeleteIn(id, full)
    \/ \E full \in QuotaCases : JobSaveIn(AsciiJobInput, full)
    \/ \E id \in KnownIds("jobs") \ {MissingId}, full \in QuotaCases : JobDeleteIn(id, full)
    \/ CandidateFindAll

SpecQuota == Init /\ [][NextQuota]_vars

-----------------------------------------------------------------------------
(* getAll() on every content of the three entries of a namespace.          *)
(* The entries are as something other than this program may have left      *)
(* them: absent, not parsable, valid JSON that is not an array, expired,   *)
(* or a valid array.                                                       *)

ReadTime == StartTime + BackupRetention + 1
EntryTimes == {ReadTime, ReadTime - maxAge - 1, StartTime}    \* fresh, a day old, a week old

\* a stored list with one item, all Latin-1
OneJob == << validateItem(toJSON([Job(AsciiJobInput, StartTime) EXCEPT !.id = 5]), StartTime) >>

ReadSecEntries ==
    {NoEntry, Garbage}
      \cup {encrypt(data, t) : data \in {<< >>, OneJob}, t \in EntryTimes}
      \cup {[encrypt(OneJob, ReadTime) EXCEPT !.checksum = <<0, 0>>]}
      \cup {[kind |-> "b64obj", timestamp |-> t] : t \in EntryTimes}

ReadWfEntries == {NoEntry, Garbage, NotArrayEntry} \cup {Stringify(data) : data \in {<< >>, OneJob, sampleJobs}}

ReadBakEntries ==
    {NoEntry, Garbage, NotArrayEntry}
      \cup {Stringify([timestamp |-> t, data |-> data]) : t \in EntryTimes, data \in {OneJob}}
      \cup {[kind |-> "jsonbad", val |-> [timestamp |-> t]] : t \in EntryTimes}

InitRead ==
    /\ \E sec \in ReadSecEntries, wf \in ReadWfEntries, bak \in ReadBakEntries :
          ls = [ns \in Namespaces |->
                  IF ns = "jobs" THEN [sec |-> sec, wf |-> wf, bak |-> bak, emg |-> NoEntry]
                  ELSE EmptyStore]
    /\ now = ReadTime
    /\ due = {}
    /\ h1 = NoOp
    /\ h2 = NoOp
    /\ nops = 0
    /\ detail = [p \in DetailCalls |-> Idle]
    /\ tabs = [t \in Tabs |-> TabIdle]
    /\ kv = NoKv
    /\ router = NoRouter
    /\ auth = NoAuth
    /\ emitter = NoEmitter
    /\ boot = NotBooting

\* StorageService.getAll() called directly.  Whatever is thrown inside is
\* caught inside (the branches of getAll and restoreFromBackup above), so the
\* call always returns; array tells whether it returned an array.
StorageGetAll(ns) ==
    LET pre == ls[ns]
        g == getAll(pre, now, NoQuotaError)
    IN  /\ CanRun
        /\ ls' = [ls EXCEPT ![ns] = g.st]
        /\ Record([op |-> "getAll", ns |-> ns, items |-> g.ret, array |-> g.array,
                   pre |-> pre, post |-> g.st, at |-> now])
        /\ UNCHANGED <<now, due, detail, tabs, boot, kv, router, auth, emitter>>

NextRead == \E ns \in Namespaces : StorageGetAll(ns)

SpecRead == InitRead /\ [][NextRead]_vars

-----------------------------------------------------------------------------
(* StorageService called directly, with items that carry stamps of their   *)
(* own.                                                                    *)

\* a time stamp from before the page was loaded
EarlierTime == StartTime - 1

StoreItems ==
    {[OneJob[1] EXCEPT !.id = id, !.updatedAt = u, !.createdAt = NoTime] :
        id \in {5, 6}, u \in {NoTime, EarlierTime}}

\* upsert(item)
StorageUpsertIn(ns, item, full) ==
    LET pre == ls[ns]
    IN  \E rnd \in RandomValues :
          LET u == upsert(pre, item, now, rnd, full)
          IN  /\ CanRun
              /\ ls' = [ls EXCEPT ![ns] = u.st]
              /\ Record([op |-> "upsert", ns |-> ns, arg |-> item, full |-> full,
                         ok |-> ~u.threw, list |-> u.list,
                         ret |-> u.ret, pre |-> pre, post |-> u.st, at |-> now])
              /\ UNCHANGED <<now, due, detail, tabs, boot, kv, router, auth, emitter>>

StorageUpsert(ns, item) == StorageUpsertIn(ns, item, NoQuotaError)

NextStore ==
    \/ \E item \in StoreItems : StorageUpsert("jobs", item)
    \/ StorageGetAll("jobs")
    \/ \E d \in ClockSteps : Tick(d)

SpecStore == Init /\ [][NextStore]_vars

-----------------------------------------------------------------------------
(* CandidateDetail.save(): the detail dialog of one stored candidate.  A   *)
(* call runs up to an await, and other calls run in between: the steps     *)
(* are the part up to "await this.repo.findById" and the part after it.    *)

\* this.currentId, and the fields of the form
CurrentId == KoInput.id
DetailForm == [KoInput EXCEPT !.appliedDate = NoDate, !.avatar = NoAtom]

\* { date: new Date().toISOString(), action: <information saved>, description }
HistoryEntry(t) == [date |-> t, action |-> "ko_jeongbo_jeojang"]

\* the candidate of the dialog is in the collection, saved when the page loaded
InitDetail ==
    /\ ls = [ns \in Namespaces |->
               IF ns = "candidates"
               THEN upsert(EmptyStore, toJSON(Candidate(KoInput, StartTime)), StartTime, 1,
                           NoQuotaError).st
               ELSE EmptyStore]
    /\ now = StartTime
    /\ due = {}
    /\ h1 = NoOp
    /\ h2 = NoOp
    /\ nops = 0
    /\ detail = [p \in DetailCalls |-> Idle]
    /\ tabs = [t \in Tabs |-> TabIdle]
    /\ kv = NoKv
    /\ router = NoRouter
    /\ auth = NoAuth
    /\ emitter = NoEmitter
    /\ boot = NotBooting

\* save(), up to the await of line 108: (await this.repo.findById(id))?.history || []
DetailFind(p) ==
    LET pre == ls["candidates"]
        g == getAll(pre, now, NoQuotaError)
        all == [i \in 1..Len(g.ret) |-> Candidate(g.ret[i], now)]
        idx == findIndex(all, CurrentId)
        held == IF idx >= 1 THEN all[idx].history ELSE << >>
    IN  /\ CanRun
        /\ detail[p].pc = "idle"
        /\ ls' = [ls EXCEPT !["candidates"] = g.st]
        /\ detail' = [detail EXCEPT ![p] = [pc |-> "found", history |-> held]]
        /\ Record([op |-> "detailFind", ns |-> "candidates", arg |-> CurrentId, call |-> p,
                   ret |-> held, pre |-> pre, post |-> g.st, at |-> now])
        /\ UNCHANGED <<now, due, tabs, boot, kv, router, auth, emitter>>

\* save(), from the push of line 109 to the end: await this.repo.save(candidate)
DetailStore(p) ==
    LET pre == ls["candidates"]
        c == [Candidate(DetailForm, now) EXCEPT
                !.history = Append(detail[p].history, HistoryEntry(now))]
        u == upsert(pre, toJSON(c), now, 1, NoQuotaError)
        saved == CandidateValid(c) /\ ~u.threw
        post == IF CandidateValid(c) THEN u.st ELSE pre
    IN  /\ CanRun
        /\ detail[p].pc = "found"
        /\ ls' = [ls EXCEPT !["candidates"] = post]
        /\ detail' = [detail EXCEPT ![p] = Idle]
        /\ Record([op |-> "detailSave", ns |-> "candidates", arg |-> CurrentId, call |-> p,
                   ok |-> saved, ret |-> c, pre |-> pre, post |-> post, at |-> now])
        /\ UNCHANGED <<now, due, tabs, boot, kv, router, auth, emitter>>

NextDetail ==
    \/ \E p \in DetailCalls : DetailFind(p)
    \/ \E p \in DetailCalls : DetailStore(p)
    \/ CandidateFindAll
    \/ Tick(1)

SpecDetail == InitDetail /\ [][NextDetail]_vars

-----------------------------------------------------------------------------
(* Two tabs of the application on one localStorage.  Each tab runs          *)
(* StorageService.upsert on the jobs collection; the reads and writes of    *)
(* localStorage by the two tabs are not ordered with respect to each other, *)
(* so one tab can be between the getAll() and the setAll() of its upsert    *)
(* while the other tab runs.                                                *)

\* upsert(item) in tab t, up to "const list = this.getAll()"
TabRead(t, item) ==
    LET pre == ls["jobs"]
        g == getAll(pre, now, NoQuotaError)
    IN  /\ CanRun
        /\ tabs[t].pc = "idle"
        /\ ls' = [ls EXCEPT !["jobs"] = g.st]
        /\ tabs' = [tabs EXCEPT ![t] = [pc |-> "read", item |-> validateItem(item, now),
                                        list |-> g.ret, array |-> g.array]]
        /\ Record([op |-> "tabRead", ns |-> "jobs", arg |-> item, tab |-> t,
                   ret |-> g.ret, pre |-> pre, post |-> g.st, at |-> now])
        /\ UNCHANGED <<now, due, detail, boot, kv, router, auth, emitter>>

\* upsert(item) in tab t, from "const idx = list.findIndex" to its return
TabWrite(t) ==
    LET pre == ls["jobs"]
        held == tabs[t].list
    IN  \E rnd \in RandomValues :
          LET u == upsertWrite(pre, held, tabs[t].item, now, rnd, NoQuotaError)
              post == IF tabs[t].array THEN u.st ELSE pre
          IN  /\ CanRun
              /\ tabs[t].pc = "read"
              /\ ls' = [ls EXCEPT !["jobs"] = post]
              /\ tabs' = [tabs EXCEPT ![t] = TabIdle]
              /\ Record([op |-> "tabUpsert", ns |-> "jobs", arg |-> tabs[t].item, tab |-> t,
                         held |-> held, ok |-> tabs[t].array, ret |-> u.ret,
                         pre |-> pre, post |-> post, at |-> now])
              /\ UNCHANGED <<now, due, detail, boot, kv, router, auth, emitter>>

NextTabs ==
    \/ \E t \in Tabs, item \in StoreItems : TabRead(t, item)
    \/ \E t \in Tabs : TabWrite(t)
    \/ Tick(1)

SpecTabs == Init /\ [][NextTabs]_vars

-----------------------------------------------------------------------------
(* StorageService.upsert while stores refuse writes.  The stores are the    *)
(* entries of localStorage as before, sessionStorage ("session") and the    *)
(* in-process map of the memory adapter ("memory").                         *)

\* what refuses writes: nothing; localStorage; localStorage and
\* sessionStorage; every store
TierCases ==
    { NoQuotaError,
      {"sec", "wf", "bak", "emg"},
      {"sec", "wf", "bak"},
      {"sec", "wf", "bak", "session"},
      {"sec", "wf", "bak", "session", "memory"} }

NextTiers ==
    \/ \E item \in {i \in StoreItems : i.updatedAt = NoTime}, full \in TierCases : StorageUpsertIn("jobs", item, full)
    \/ StorageGetAll("jobs")
    \/ Tick(1)

SpecTiers == Init /\ [][NextTiers]_vars

-----------------------------------------------------------------------------
(* Repository writes while the write of the snapshot is refused: the        *)
(* collection and its snapshot are two entries of one localStorage, and the *)
(* quota can be reached by the second of the two writes.                    *)

SnapshotCases == {NoQuotaError, {"bak"}, {"wf", "bak"}}

NextSnapshot ==
    \/ \E data \in {KoInput}, full \in SnapshotCases : CandidateSaveIn(data, full)
    \/ \E id \in KnownIds("candidates") \ {MissingId}, full \in SnapshotCases :
            CandidateDeleteIn(id, full)
    \/ \E data \in JobInputs, full \in SnapshotCases : JobSaveIn(data, full)
    \/ \E id \in KnownIds("jobs") \ {MissingId}, full \in SnapshotCases : JobDeleteIn(id, full)
    \/ JobFindAll
    \/ Tick(1)

SpecSnapshot == Init /\ [][NextSnapshot]_vars

-----------------------------------------------------------------------------
(* The Storage class and its adapters local, session and memory: one key,   *)
(* written with set(key, value, options) and read with get(key).            *)

StorageTypes == {"local", "session", "memory", "auto"}

\* selectAdapter(type); avail: the browser stores that pass the availability test
selectAdapter(type, avail) ==
    CASE type = "local" -> IF "local" \in avail THEN "local" ELSE "memory"
      [] type = "session" -> IF "session" \in avail THEN "session" ELSE "memory"
      [] type = "memory" -> "memory"
      [] OTHER -> IF "local" \in avail THEN "local"
                  ELSE IF "session" \in avail THEN "session"
                  ELSE "memory"

NoItem == [kind |-> "none"]
NoExpiry == 0                  \* data.expiry is undefined
NoTtl == 0                     \* options.ttl is undefined
DefaultValue == "default"
Ttls == {1, 2}
KvOptions == [ttl : Ttls \cup {NoTtl}, encrypt : BOOLEAN]

\* what <adapter>.set(key, value, options) stores at time t
adapterSet(a, value, options, t) ==
    CASE a = "local" ->
            [kind |-> "item", value |-> value, timestamp |-> t,
             expiry |-> IF options.ttl # 0 THEN t + options.ttl ELSE NoExpiry,
             encrypted |-> options.encrypt]
      [] a = "session" ->
            [kind |-> "item", value |-> value, timestamp |-> t,
             expiry |-> NoExpiry, encrypted |-> FALSE]
      [] a = "memory" ->
            [kind |-> "item", value |-> value, timestamp |-> t,
             expiry |-> IF options.ttl # 0 THEN t + options.ttl ELSE NoExpiry,
             encrypted |-> FALSE]

\* <adapter>.get(key) at time t: what is returned and the entry left behind
adapterGet(a, e, t) ==
    IF e.kind = "none" THEN [ret |-> DefaultValue, entry |-> e]
    ELSE IF a # "session" /\ e.expiry # NoExpiry /\ t > e.expiry
    THEN [ret |-> DefaultValue, entry |-> NoItem]                \* this.remove(key)
    ELSE [ret |-> e.value, entry |-> e]

\* the last set: a record of what was asked for, kept for the properties
NoSet == [done |-> FALSE, value |-> DefaultValue, ttl |-> NoTtl, at |-> 0]

\* new Storage(type)
InitTtl ==
    /\ ls = [ns \in Namespaces |-> EmptyStore]
    /\ now = StartTime
    /\ due = {}
    /\ h1 = NoOp
    /\ h2 = NoOp
    /\ nops = 0
    /\ detail = [p \in DetailCalls |-> Idle]
    /\ tabs = [t \in Tabs |-> TabIdle]
    /\ boot = NotBooting
    /\ kv \in {[adapter |-> selectAdapter(type, avail), entry |-> NoItem, last |-> NoSet] :
                 type \in StorageTypes, avail \in SUBSET {"local", "session"}}
    /\ router = NoRouter
    /\ auth = NoAuth
    /\ emitter = NoEmitter

\* storage.set(key, value, options)
KvSet(value, options) ==
    /\ CanRun
    /\ kv' = [kv EXCEPT !.entry = adapterSet(kv.adapter, value, options, now),
                        !.last = [done |-> TRUE, value |-> value, ttl |-> options.ttl,
                                  at |-> now]]
    /\ Record([op |-> "kvSet", ns |-> kv.adapter, arg |-> value, options |-> options,
               at |-> now])
    /\ UNCHANGED <<ls, now, due, detail, tabs, boot, router, auth, emitter>>

\* storage.get(key)
KvGet ==
    LET g == adapterGet(kv.adapter, kv.entry, now)
    IN  /\ CanRun
        /\ kv' = [kv EXCEPT !.entry = g.entry]
        /\ Record([op |-> "kvGet", ns |-> kv.adapter, ret |-> g.ret, at |-> now])
        /\ UNCHANGED <<ls, now, due, detail, tabs, boot, router, auth, emitter>>

NextTtl ==
    \/ \E value \in {"a", "b"}, options \in KvOptions : KvSet(value, options)
    \/ KvGet
    \/ \E d \in Ttls : Tick(d)

SpecTtl == InitTtl /\ [][NextTtl]_vars

-----------------------------------------------------------------------------
(* StorageService.upsert of records with a string field longer than the     *)
(* maximum length.                                                          *)

\* a string of maxLength + 1 letters
LongText == [i \in 1..(maxLength + 1) |-> "a"]

LongItems ==
    {[OneJob[1] EXCEPT !.id = id, !.title = t, !.updatedAt = NoTime, !.createdAt = NoTime] :
        id \in {5, 6}, t \in {LongText, <<"H", "o", "n", "g">>}}

NextLong ==
    \/ \E item \in LongItems : StorageUpsert("jobs", item)
    \/ StorageGetAll("jobs")
    \/ Tick(1)

SpecLong == Init /\ [][NextLong]_vars

-----------------------------------------------------------------------------
(* The 5-minute backup timer over a corrupted primary store: the collection *)
(* was saved at StartTime, wf:<namespace> has been damaged since, and no    *)
(* save follows.                                                            *)

\* the clock advances by a millisecond or by four days
TimerSteps == {1, 4 * DayMs}

\* a namespace written at StartTime whose wf:<namespace> no longer parses
CorruptedAfterWrite(ns) ==
    [setAll(EmptyStore, Fixtures(ns), StartTime, NoQuotaError) EXCEPT !.wf = Garbage]

InitTimer ==
    /\ ls \in [Namespaces -> {EmptyStore} \cup {CorruptedAfterWrite(ns) : ns \in Namespaces}]
    /\ \A ns \in Namespaces : ls[ns] \in {EmptyStore, CorruptedAfterWrite(ns)}
    /\ now = StartTime
    /\ due = {}
    /\ h1 = NoOp
    /\ h2 = NoOp
    /\ nops = 0
    /\ detail = [p \in DetailCalls |-> Idle]
    /\ tabs = [t \in Tabs |-> TabIdle]
    /\ boot = NotBooting
    /\ kv = NoKv
    /\ router = NoRouter
    /\ auth = NoAuth
    /\ emitter = NoEmitter

NextTimer ==
    \/ \E ns \in Namespaces : AutoBackup(ns)
    \/ \E ns \in Namespaces : StorageGetAll(ns)
    \/ \E d \in TimerSteps : Tick(d)

SpecTimer == InitTimer /\ [][NextTimer]_vars

-----------------------------------------------------------------------------
(* App.initialize(): the page has been loaded and DOMContentLoaded calls    *)
(* initialize() of one of the two App classes.  The steps are the parts of  *)
(* initialize() between its awaits; seed() is taken one statement at a      *)
(* time.                                                                    *)

\* core/app.js, and the simplified App of core/app-simple.js
AppClasses == {"app", "app-simple"}

\* the statements of seed(), in their order
SeedOrder == <<"candidates", "jobs", "interviews">>

\* the pages of the router and the collection that the controller of each
\* reads when it is shown
Pages == {"dashboard", "candidates", "jobs", "interviews"}
ReadBy(page) == IF page = "dashboard" THEN "candidates" ELSE page

\* what an earlier visit left in a namespace
SeededEarlier(ns) == SeedOne(EmptyStore, ns, EarlierTime)

InitBoot ==
    /\ ls \in [Namespaces -> {EmptyStore} \cup {SeededEarlier(ns) : ns \in Namespaces}]
    /\ \A ns \in Namespaces : ls[ns] \in {EmptyStore, SeededEarlier(ns)}
    /\ now = StartTime
    /\ due = {}
    /\ h1 = NoOp
    /\ h2 = NoOp
    /\ nops = 0
    /\ detail = [p \in DetailCalls |-> Idle]
    /\ tabs = [t \in Tabs |-> TabIdle]
    /\ kv = NoKv
    /\ router = NoRouter
    /\ auth = NoAuth
    /\ emitter = NoEmitter
    /\ boot \in [pc : {"auth"}, app : AppClasses, user : BOOLEAN, seeded : {0}]

\* the continuation of "await seeder.seed()" without the await
SeedNotAwaited(b) == TRUE

\* "await seeder.seed()": what follows it runs once the promise of seed() is
\* fulfilled, which is after the last statement of seed()
SeedSettled(b) == b.seeded = Len(SeedOrder)

\* getCurrentUser(): without a user, core/app.js returns from initialize();
\* checkAuthentication() of app-simple.js returns to initialize(), which goes on
BootAuth ==
    /\ boot.pc = "auth"
    /\ boot' = [boot EXCEPT !.pc = IF ~boot.user /\ boot.app = "app" THEN "left" ELSE "seed"]
    /\ UNCHANGED <<ls, now, due, h1, h2, nops, detail, tabs, kv, router, auth, emitter>>

\* one statement of seed(): if (store.getAll() || []).length === 0, setAll(samples)
BootSeed ==
    /\ boot.pc \notin {"auth", "left"}
    /\ boot.seeded < Len(SeedOrder)
    /\ LET ns == SeedOrder[boot.seeded + 1]
       IN  ls' = [ls EXCEPT ![ns] = SeedOne(ls[ns], ns, now)]
    /\ boot' = [boot EXCEPT !.seeded = @ + 1]
    /\ UNCHANGED <<now, due, h1, h2, nops, detail, tabs, kv, router, auth, emitter>>

\* from the await of seed() to the first router.loadPage: theme, header, sidebar
BootUI ==
    /\ boot.pc = "seed"
    /\ SeedSettled(boot)
    /\ boot' = [boot EXCEPT !.pc = "page"]
    /\ UNCHANGED <<ls, now, due, h1, h2, nops, detail, tabs, kv, router, auth, emitter>>

\* router.loadPage(page): the controller of the page reads its collection
LoadPage(page) ==
    LET ns == ReadBy(page)
        pre == ls[ns]
        g == getAll(pre, now, NoQuotaError)
    IN  /\ CanRun
        /\ ls' = [ls EXCEPT ![ns] = g.st]
        /\ boot' = [boot EXCEPT !.pc = "running"]
        /\ Record([op |-> "loadPage", ns |-> ns, arg |-> page, seeded |-> boot.seeded,
                   ret |-> g.ret, pre |-> pre, post |-> g.st, at |-> now])
        /\ UNCHANGED <<now, due, detail, tabs, kv, router, auth, emitter>>

\* the first page, from location.hash
BootLoadPage(page) == boot.pc = "page" /\ LoadPage(page)

\* the hashchange listener, registered after the first page
HashChange(page) == boot.pc = "running" /\ LoadPage(page)

NextBoot ==
    \/ BootAuth
    \/ BootSeed
    \/ BootUI
    \/ \E page \in Pages : BootLoadPage(page)
    \/ \E page \in Pages : HashChange(page)

SpecBoot == InitBoot /\ [][NextBoot]_vars

-----------------------------------------------------------------------------
(* Router.loadPage: calls made by the hashchange, popstate and click        *)
(* handlers while earlier calls are at an await.  A load is one run of      *)
(* _loadPageInternal, named after the call that started it.  The code that  *)
(* follows an await runs as a microtask: the calls waiting for a promise    *)
(* go on in the order in which they began to wait, before any new event.    *)

LoadCalls == {1, 2, 3}
NoLoad == 0
NoPage == "null"

InitRouter ==
    /\ ls = [ns \in Namespaces |-> EmptyStore]
    /\ now = StartTime
    /\ due = {}
    /\ h1 = NoOp
    /\ h2 = NoOp
    /\ nops = 0
    /\ detail = [p \in DetailCalls |-> Idle]
    /\ tabs = [t \in Tabs |-> TabIdle]
    /\ boot = NotBooting
    /\ kv = NoKv
    /\ router = [currentPage |-> NoPage,
                 loadingPromise |-> NoLoad,
                 inProgress |-> {},
                 settled |-> {},
                 waiters |-> [c \in LoadCalls |-> << >>],
                 microtasks |-> << >>,
                 calls |-> [c \in LoadCalls |-> [pc |-> "idle", page |-> NoPage, ok |-> TRUE]]]
    /\ auth = NoAuth
    /\ emitter = NoEmitter

\* this.loadingPromise = this._loadPageInternal(pageName); await this.loadingPromise
StartLoad(r, c, page) ==
    [r EXCEPT !.loadingPromise = c,
              !.inProgress = @ \cup {c},
              !.waiters[c] = <<c>>,
              !.calls[c] = [pc |-> "awaitOwn", page |-> page, ok |-> TRUE]]

\* await of the promise of load p by call c: c goes on when p is settled
AwaitLoad(r, c, p, page) ==
    IF p \in r.settled
    THEN [r EXCEPT !.microtasks = Append(@, c),
                   !.calls[c] = [pc |-> "awaitPrevious", page |-> page, ok |-> TRUE]]
    ELSE [r EXCEPT !.waiters[p] = Append(@, c),
                   !.calls[c] = [pc |-> "awaitPrevious", page |-> page, ok |-> TRUE]]

\* loadPage(pageName), up to its first await
CallLoadPage(c, page) ==
    /\ router.calls[c].pc = "idle"
    /\ router.microtasks = << >>
    /\ router' =
          IF router.currentPage = page                   \* shouldReload() is false
          THEN [router EXCEPT !.calls[c] = [pc |-> "returned", page |-> page, ok |-> TRUE]]
          ELSE IF router.loadingPromise # NoLoad
          THEN AwaitLoad(router, c, router.loadingPromise, page)
          ELSE StartLoad(router, c, page)
    /\ UNCHANGED <<ls, now, due, h1, h2, nops, detail, tabs, boot, kv, auth, emitter>>

\* _loadPageInternal of load p ends: its promise is fulfilled (ok) or rejected
FinishLoad(p, ok) ==
    /\ p \in router.inProgress
    /\ router.microtasks = << >>
    /\ router' = [router EXCEPT !.inProgress = @ \ {p},
                                !.settled = @ \cup {p},
                                !.microtasks = router.waiters[p],
                                !.waiters[p] = << >>,
                                !.calls[p].ok = ok]
    /\ UNCHANGED <<ls, now, due, h1, h2, nops, detail, tabs, boot, kv, auth, emitter>>

\* the call at the head of the microtask queue goes on after its await
ResumeLoadPage ==
    /\ router.microtasks # << >>
    /\ LET c == Head(router.microtasks)
           r == [router EXCEPT !.microtasks = Tail(@)]
           page == router.calls[c].page
       IN  router' =
             IF router.calls[c].pc = "awaitPrevious"
             THEN StartLoad(r, c, page)
             ELSE [r EXCEPT !.currentPage = IF router.calls[c].ok THEN page ELSE @,
                            !.loadingPromise = NoLoad,                     \* finally
                            !.calls[c].pc = "returned"]
    /\ UNCHANGED <<ls, now, due, h1, h2, nops, detail, tabs, boot, kv, auth, emitter>>

NextRouter ==
    \/ \E c \in LoadCalls, page \in Pages : CallLoadPage(c, page)
    \/ \E p \in LoadCalls, ok \in BOOLEAN : FinishLoad(p, ok)
    \/ ResumeLoadPage

SpecRouter == InitRouter /\ [][NextRouter]_vars

-----------------------------------------------------------------------------
(* AuthService and the login form: the keys currentUser and workflowUser    *)
(* (legacy) in localStorage and sessionStorage.                             *)

NoKey == [kind |-> "none"]                      \* getItem returns null
BadJson == [kind |-> "garbage"]                 \* a value that JSON.parse rejects
UserJson(u) == [kind |-> "json", user |-> u]    \* JSON.stringify(userData)
NoUser == "null"

\* a || b on what getItem returns
OrElse(a, b) == IF a.kind # "none" THEN a ELSE b

\* getCurrentUser()
getCurrentUser(a) ==
    LET legacy == OrElse(a.localLegacy, a.sessionLegacy)
        saved == OrElse(a.localCurrent, OrElse(a.sessionCurrent, legacy))
    IN  IF saved.kind = "json" THEN saved.user ELSE NoUser

\* logout(): removeItem('currentUser') on both stores
logout(a) == [a EXCEPT !.localCurrent = NoKey, !.sessionCurrent = NoKey]

\* the page is opened with whatever earlier sessions, of this version or of
\* the one that wrote workflowUser, have left in the two stores
InitAuth ==
    /\ ls = [ns \in Namespaces |-> EmptyStore]
    /\ now = StartTime
    /\ due = {}
    /\ h1 = NoOp
    /\ h2 = NoOp
    /\ nops = 0
    /\ detail = [p \in DetailCalls |-> Idle]
    /\ tabs = [t \in Tabs |-> TabIdle]
    /\ boot = NotBooting
    /\ kv = NoKv
    /\ router = NoRouter
    /\ auth \in [localCurrent : {NoKey, UserJson("test@example.com")},
                  sessionCurrent : {NoKey, UserJson("admin@workflow.com")},
                  localLegacy : {NoKey, BadJson, UserJson("test@example.com")},
                  sessionLegacy : {NoKey, UserJson("admin@workflow.com")}]
    /\ emitter = NoEmitter

\* performLogin() with the credentials of an account
Login(account, remember) ==
    /\ CanRun
    /\ auth' = IF remember THEN [auth EXCEPT !.localCurrent = UserJson(account)]
               ELSE [auth EXCEPT !.sessionCurrent = UserJson(account)]
    /\ Record([op |-> "login", ns |-> "auth", arg |-> account, remember |-> remember])
    /\ UNCHANGED <<ls, now, due, detail, tabs, boot, kv, router, emitter>>

Logout ==
    /\ CanRun
    /\ auth' = logout(auth)
    /\ Record([op |-> "logout", ns |-> "auth", pre |-> auth])
    /\ UNCHANGED <<ls, now, due, detail, tabs, boot, kv, router, emitter>>

GetCurrentUser ==
    /\ CanRun
    /\ Record([op |-> "getCurrentUser", ns |-> "auth", ret |-> getCurrentUser(auth)])
    /\ UNCHANGED <<ls, now, due, detail, tabs, boot, kv, router, auth, emitter>>

NextAuth ==
    \/ \E account \in {"test@example.com", "admin@workflow.com"}, remember \in BOOLEAN : Login(account, remember)
    \/ Logout
    \/ GetCurrentUser

SpecAuth == InitAuth /\ [][NextAuth]_vars

-----------------------------------------------------------------------------
(* EventEmitter: the listeners of one event and the emit calls on the call  *)
(* stack. There is no middleware and the handlers are ordinary functions,   *)
(* so an emit runs to its end without giving up control, and an emit made   *)
(* by a handler runs inside that handler's call.                            *)

OnceHandlers == {"h"}                 \* handlers registered with once()
PlainHandlers == {"f", "g"}           \* handlers registered with on()
Priorities == {0, 1}
EmitCalls == {1, 2, 3}                \* the calls of emit(event), each made once

\* listeners.findIndex(l => l.priority < priority), 0 for -1
insertIndex(listeners, priority) ==
    LET S == {i \in 1..Len(listeners) : listeners[i].priority < priority}
    IN  IF S = {} THEN 0 ELSE CHOOSE i \in S : \A j \in S : i <= j

\* on(event, handler, {once, priority}): insert by priority
on(listeners, handler, once, priority) ==
    LET listener == [handler |-> handler, once |-> once, priority |-> priority]
        at == insertIndex(listeners, priority)
    IN  IF at = 0 THEN Append(listeners, listener)
        ELSE SubSeq(listeners, 1, at - 1) \o <<listener>> \o SubSeq(listeners, at, Len(listeners))

\* off(event, handler, undefined): keep the listeners of other handlers
off(listeners, handler) == SelectSeq(listeners, LAMBDA l : l.handler # handler)

\* the statements of emit after listener.handler(...args) has returned
afterHandler(listeners, listener) ==
    IF listener.once THEN off(listeners, listener.handler) ELSE listeners

InitEmitter ==
    /\ ls = [ns \in Namespaces |-> EmptyStore]
    /\ now = StartTime
    /\ due = {}
    /\ h1 = NoOp
    /\ h2 = NoOp
    /\ nops = 0
    /\ detail = [p \in DetailCalls |-> Idle]
    /\ tabs = [t \in Tabs |-> TabIdle]
    /\ boot = NotBooting
    /\ kv = NoKv
    /\ router = NoRouter
    /\ auth = NoAuth
    /\ emitter = [events |-> << >>,
                  stack |-> << >>,
                  registered |-> {},
                  calls |-> {},
                  invoked |-> [h \in OnceHandlers \cup PlainHandlers |-> 0]]

\* a frame of emit: the copy of the listeners and the position of the loop
Frame(c, listeners) == [call |-> c, listeners |-> listeners, i |-> 1, running |-> FALSE]

\* on(event, handler, {priority}) called by the application
On(handler, priority) ==
    /\ emitter.stack = << >>
    /\ handler \notin emitter.registered
    /\ emitter' = [emitter EXCEPT !.events = on(@, handler, FALSE, priority),
                                  !.registered = @ \cup {handler}]
    /\ UNCHANGED <<ls, now, due, h1, h2, nops, detail, tabs, boot, kv, router, auth>>

\* once(event, handler, {priority}) called by the application
Once(handler, priority) ==
    /\ emitter.stack = << >>
    /\ handler \notin emitter.registered
    /\ emitter' = [emitter EXCEPT !.events = on(@, handler, TRUE, priority),
                                  !.registered = @ \cup {handler}]
    /\ UNCHANGED <<ls, now, due, h1, h2, nops, detail, tabs, boot, kv, router, auth>>

\* emit(event) called by the application: up to the start of the loop
Emit(c) ==
    /\ emitter.stack = << >>
    /\ c \notin emitter.calls
    /\ emitter' = [emitter EXCEPT !.calls = @ \cup {c},
                                  !.stack = IF emitter.events = << >> THEN << >>
                                            ELSE <<Frame(c, emitter.events)>>]
    /\ UNCHANGED <<ls, now, due, h1, h2, nops, detail, tabs, boot, kv, router, auth>>

\* one turn of the loop of emit: the handler of the next listener is called
\* and returns, throws, or (a handler registered with on) emits the event
CallHandler(outcome, c) ==
    /\ emitter.stack # << >>
    /\ LET n == Len(emitter.stack)
           top == emitter.stack[n]
       IN  /\ ~top.running
           /\ top.i <= Len(top.listeners)
           /\ LET listener == top.listeners[top.i]
                  called == [emitter EXCEPT !.invoked[listener.handler] = @ + 1]
              IN  CASE outcome = "return" ->
                         emitter' = [called EXCEPT !.events = afterHandler(@, listener),
                                                   !.stack[n].i = @ + 1]
                    [] outcome = "throw" ->
                         emitter' = [called EXCEPT !.stack[n].i = @ + 1]
                    [] outcome = "emit" ->
                         /\ ~listener.once
                         /\ c \notin emitter.calls
                         /\ emitter.events # << >>
                         /\ emitter' = [called EXCEPT !.calls = @ \cup {c},
                                                      !.stack = Append([@ EXCEPT ![n].running = TRUE],
                                                                       Frame(c, emitter.events))]
    /\ UNCHANGED <<ls, now, due, h1, h2, nops, detail, tabs, boot, kv, router, auth>>

\* the loop of the innermost emit has ended: emit returns, and the handler
\* that called it, if any, returns to the emit that had called it
ReturnEmit ==
    /\ emitter.stack # << >>
    /\ LET n == Len(emitter.stack)
           top == emitter.stack[n]
       IN  /\ top.i > Len(top.listeners)
           /\ IF n = 1 THEN emitter' = [emitter EXCEPT !.stack = << >>]
              ELSE LET caller == emitter.stack[n - 1]
                       listener == caller.listeners[caller.i]
                   IN  emitter' = [emitter EXCEPT
                           !.events = afterHandler(@, listener),
                           !.stack = [SubSeq(@, 1, n - 1) EXCEPT ![n - 1].i = @ + 1,
                                                                  ![n - 1].running = FALSE]]
    /\ UNCHANGED <<ls, now, due, h1, h2, nops, detail, tabs, boot, kv, router, auth>>

NextEmitter ==
    \/ \E handler \in PlainHandlers, priority \in Priorities : On(handler, priority)
    \/ \E handler \in OnceHandlers, priority \in Priorities : Once(handler, priority)
    \/ \E c \in EmitCalls : Emit(c)
    \/ \E outcome \in {"return", "throw", "emit"}, c \in EmitCalls : CallHandler(outcome, c)
    \/ ReturnEmit

SpecEmitter == InitEmitter /\ [][NextEmitter]_vars

-----------------------------------------------------------------------------
(* Vocabulary of the properties *)

\* h is a save of the candidate repository that returned
SavedCandidate(h) == h.op = "save" /\ h.ns = "candidates" /\ h.ok

\* the ids of a list of items
IdsOf(list) == {list[i].id : i \in 1..Len(list)}

\* field k of an input record is not supplied
Absent(k, v) ==
    IF k \in TextFields \cup {"history"} THEN v = NoText
    ELSE IF k \in AtomFields THEN v = NoAtom
    ELSE IF k = "score" THEN v = NaN
    ELSE v = 0

\* found has every field that the input r supplies, with r's value
SameFields(found, r) == \A k \in DOMAIN r : Absent(k, r[k]) \/ found[k] = r[k]

\* the primary entries of a store are damaged: one of them does not decode or
\* parse, and neither holds a collection that can be read at time t
CorruptedPrimary(st, t) ==
    /\ st.sec.kind = "garbage" \/ st.wf.kind = "garbage"
    /\ ~SessionGet(st.sec, t).ok
    /\ st.wf.kind # "json"

\* no primary entry at all
AdapterMiss(st) == st.sec.kind = "none" /\ st.wf.kind = "none"

\* a snapshot is there and is at most / more than 7 days old at time t
FreshBackup(st, t) == st.bak.kind = "json" /\ t - st.bak.val.timestamp <= BackupRetention
StaleBackup(st, t) == st.bak.kind = "json" /\ t - st.bak.val.timestamp > BackupRetention

-----------------------------------------------------------------------------
(* Properties *)

\* what the Soft Validator makes of the text fields of an input record
Sanitized(r) ==
    [k \in DOMAIN r |->
        IF k \in TextFields /\ ~validateInput(r[k]) THEN StripAngles(r[k]) ELSE r[k]]

\* C1 (round trip): findById(s.id), called after save(r) has returned s, returns
\* a record that has the fields of r (text fields as the Soft Validator
\* sanitises them; the stamps are not compared).
C1_RoundTrip ==
    (h1.op = "findById" /\ SavedCandidate(h2) /\ h1.arg = h2.ret.id)
        => (Len(h1.ret) = 1 /\ SameFields(h1.ret[1], Sanitized(h2.arg)))

\* C2 (backup fallback): findAll() on a store whose primary is corrupted and
\* whose snapshot is less than 7 days old returns the data of the snapshot.
C2_BackupFallback ==
    (h1.op = "findAll" /\ CorruptedPrimary(h1.pre, h1.at) /\ FreshBackup(h1.pre, h1.at))
        => h1.items = h1.pre.bak.val.data

\* C3 (no expiry): the collection that a save() left in a namespace is what the
\* next findAll() of that namespace returns, however much later it is called.
C3_NoExpiry ==
    (h1.op = "findAll" /\ h2.op = "save" /\ h2.ns = h1.ns /\ h2.ok)
        => h1.items = Stored(h2.post, h2.at)

C5_UpsertIdempotent ==
    (SavedCandidate(h1) /\ SavedCandidate(h2) /\ h1.arg = h2.ret)
        => /\ h1.pre = h2.post
           /\ Len(Stored(h1.post, h1.at)) = Len(Stored(h1.pre, h1.at))
           /\ (h1.post.wf.kind = "json" /\ h1.pre.wf.kind = "json"
                 => Len(h1.post.wf.val) = Len(h1.pre.wf.val))

\* C5 witness: the returned object was saved again, and the collection held it
\* before that second save and holds it after.
C5_Witness ==
    /\ SavedCandidate(h1) /\ SavedCandidate(h2) /\ h1.arg = h2.ret
    /\ h1.ret.id \in IdsOf(Stored(h1.pre, h1.at))
    /\ h1.ret.id \in IdsOf(Stored(h1.post, h1.at))

\* C6 (delete of a missing id): delete(id) for an id that the collection does
\* not hold returns false and changes no entry of the namespace.
C6_DeleteMissingIsNoop ==
    (h1.op = "delete" /\ h1.arg \notin IdsOf(Stored(h1.pre, h1.at)))
        => (h1.sret = FALSE /\ h1.post = h1.pre)

\* C7 (seed idempotence): after two seed() calls in a row on empty namespaces
\* every namespace holds one copy of its fixtures, and seed() leaves the
\* collection of a non-empty namespace as it was.
C7_SeedIdempotent ==
    /\ (h1.op = "seed" /\ h2.op = "seed" /\ \A ns \in Namespaces : h2.pre[ns] = EmptyStore)
          => \A ns \in Namespaces :
                 Stored(h1.post[ns], h1.at) = Stored(setAll(EmptyStore, Fixtures(ns), h2.at, NoQuotaError), h2.at)
    /\ h1.op = "seed"
          => \A ns \in Namespaces :
                 Len(Stored(h1.pre[ns], h1.at)) > 0
                     => Stored(h1.post[ns], h1.at) = Stored(h1.pre[ns], h1.at)

\* C8 (stale backup rejected): findAll() on a store whose primary is corrupted
\* and whose snapshot is more than 7 days old returns the empty list.
C8_StaleBackupRejected ==
    (h1.op = "findAll" /\ CorruptedPrimary(h1.pre, h1.at) /\ StaleBackup(h1.pre, h1.at))
        => h1.items = << >>

\* C8 witness: such a findAll() has run, and the stale snapshot held records.
C8_Witness ==
    /\ h1.op = "findAll" /\ CorruptedPrimary(h1.pre, h1.at) /\ StaleBackup(h1.pre, h1.at)
    /\ Len(h1.pre.bak.val.data) > 0
    /\ h1.items = << >>

\* C9 (save of a candidate without id): the record gets an id, appliedDate is
\* today when absent, score is 0 by default, and the findAll() after the save
\* returns one record more than the collection held before the save.
C9_SaveAppendsOne ==
    (h1.op = "findAll" /\ h1.ns = "candidates" /\ SavedCandidate(h2) /\ h2.arg.id = NoId)
        => /\ h2.ret.id # NoId
           /\ (h2.arg.appliedDate = NoDate => h2.ret.appliedDate = Today(h2.at))
           /\ (h2.arg.score = NaN => h2.ret.score = 0)
           /\ Len(h1.ret) = Len(Stored(h2.pre, h2.at)) + 1

\* C10 (adapter miss): findAll() on a store without primary entry returns the
\* data of a snapshot that is at most 7 days old, and the empty list only when
\* there is no such snapshot.
C10_MissDelegatesToRestore ==
    (h1.op = "findAll" /\ AdapterMiss(h1.pre))
        => h1.items = (IF FreshBackup(h1.pre, h1.at) THEN h1.pre.bak.val.data ELSE << >>)

\* C11 (read paths never throw): getAll() returns a list whatever the secure
\* entry, wf:<namespace> and backup_wf:<namespace> hold.  (That it raises no
\* exception is in the shape of getAll: every failure inside is a branch that
\* returns.)
C11_ReadReturnsList == h1.op = "getAll" => h1.array

\* the records of the collection that a save or delete keeps as they are
KeptBy(h) ==
    SelectSeq(Stored(h.pre, h.at),
              LAMBDA i : i.id # (IF h.op = "save" THEN h.ret.id ELSE h.arg))

\* h is a save or delete that had a collection to write while neither the
\* secure store (quota, or btoa on text outside Latin-1) nor wf:<namespace>
\* (quota) could take it
PrimaryWriteFailed(h) ==
    /\ h.op \in {"save", "delete"}
    /\ "wf" \in h.full
    /\ IF h.op = "save"
       THEN (h.ns = "candidates" => CandidateValid(Candidate(h.arg, h.at)))
              /\ ("sec" \in h.full \/ ~IsLatin1Item(toJSON(h.ret)) \/ ~IsLatin1(KeptBy(h)))
       ELSE h.sret /\ ("sec" \in h.full \/ ~IsLatin1(KeptBy(h)))

\* C12 (emergency write): when the write to the secure store and the write to
\* wf:<namespace> both fail, the save or delete returns normally, the
\* collection it was writing is under wf:<namespace>_emergency unless that
\* write fails too, and wf:<namespace> holds no new value.
C12_EmergencyWrite ==
    PrimaryWriteFailed(h1)
        => /\ h1.ok
           /\ h1.post.wf \in {h1.pre.wf, NoEntry}
           /\ ("emg" \notin h1.full
                 => /\ h1.post.emg.kind = "json"
                    /\ IdsOf(h1.post.emg.val) =
                          IdsOf(KeptBy(h1)) \cup (IF h1.op = "save" THEN {h1.ret.id} ELSE {}))

\* C12 witness: a save went to the emergency key, which holds the new record.
C12_Witness ==
    /\ PrimaryWriteFailed(h1) /\ h1.op = "save" /\ h1.ok
    /\ h1.post.emg.kind = "json" /\ h1.ret.id \in IdsOf(h1.post.emg.val)
    /\ h1.pre.emg.kind = "none"

\* the closed enumeration of the status field of a namespace
StatusEnum(ns) ==
    CASE ns = "candidates" -> validStatuses
      [] ns = "jobs" -> JobStatuses
      [] ns = "interviews" -> InterviewStatuses

\* C13 (status enumerations): every record of the collection of a namespace
\* has a status of the enumeration of that namespace, in every reachable state
\* (records get there through the repositories' save() and through seed()).
C13_StatusInEnum ==
    \A ns \in Namespaces :
        \A i \in 1..Len(Stored(ls[ns], now)) :
            Stored(ls[ns], now)[i].status \in StatusEnum(ns)

\* the collection as the last setAll() or backup timer left it: the copy that
\* createBackup keeps under backup_wf:<namespace> (<< >> when there is none)
LastWritten(st) == IF st.bak.kind = "json" THEN st.bak.val.data ELSE << >>

\* the record with this id in a list that holds it
ItemOf(list, id) == list[findIndex(list, id)]

\* C14 (createdAt is set once): a save of a record that the collection held
\* when it was last written (so the record was written before and has not
\* been deleted) leaves the stored createdAt of that record as it was.
C14_CreatedAtKept ==
    (h1.op = "save" /\ h1.ok /\ h1.ret.id \in IdsOf(LastWritten(h1.pre))
                   /\ h1.ret.id \in IdsOf(LastWritten(h1.post)))
        => ItemOf(LastWritten(h1.post), h1.ret.id).createdAt
             = ItemOf(LastWritten(h1.pre), h1.ret.id).createdAt

\* C15 (updatedAt on every write): after a successful upsert of a record, insert
\* or update, with or without an updatedAt of its own, the stored updatedAt of
\* the record is the time of the call.
C15_UpdatedAtStamped ==
    (h1.op = "upsert" /\ h1.ok /\ h1.ret.id \in IdsOf(LastWritten(h1.post)))
        => ItemOf(LastWritten(h1.post), h1.ret.id).updatedAt = h1.at

\* no two records of a list share an id
UniqueIds(list) == \A i, j \in 1..Len(list) : list[i].id = list[j].id => i = j

\* C16 (identifiers): no two records of a collection share an identifier, and
\* a save of a record without identifier gives it an identifier that no record
\* of the collection has.
C16_IdsUnique ==
    /\ \A ns \in Namespaces :
          UniqueIds(Stored(ls[ns], now)) /\ UniqueIds(LastWritten(ls[ns]))
    /\ (h1.op = "save" /\ h1.ok /\ h1.arg.id = NoId)
          => h1.ret.id \notin IdsOf(Stored(h1.pre, h1.at)) \cup IdsOf(LastWritten(h1.pre))

\* the history of the record with this id in a list, << >> when the list does
\* not hold the record
HistoryIn(list, id) == IF id \in IdsOf(list) THEN ItemOf(list, id).history ELSE << >>

\* C17 (history is append-only): a completed CandidateDetail.save leaves as the
\* stored history of the candidate the history stored before it plus one
\* entry at the end, however the calls of save interleave.
C17_HistoryAppendOnly ==
    (h1.op = "detailSave" /\ h1.ok)
        => /\ Len(HistoryIn(LastWritten(h1.post), h1.arg))
                = Len(HistoryIn(LastWritten(h1.pre), h1.arg)) + 1
           /\ SubSeq(HistoryIn(LastWritten(h1.post), h1.arg), 1,
                     Len(HistoryIn(LastWritten(h1.pre), h1.arg)))
                = HistoryIn(LastWritten(h1.pre), h1.arg)

\* C18 (no coordination between tabs): an upsert that returns leaves as the
\* collection the list that its own tab read plus its own record, whatever
\* the other tab wrote since that read: the later write wins.
C18_LaterWriteWins ==
    (h1.op = "tabUpsert" /\ h1.ok)
        => IdsOf(Stored(h1.post, h1.at)) = IdsOf(h1.held) \cup {h1.ret.id}

\* both tabs' upserts of a new record have returned, and the collection holds
\* only the record of the later one
C18_Witness ==
    /\ h1.op = "tabUpsert" /\ h2.op = "tabUpsert"
    /\ h1.ok /\ h2.ok
    /\ h1.tab # h2.tab
    /\ h1.ret.id # h2.ret.id
    /\ h2.ret.id \notin IdsOf(h2.held) /\ h2.ret.id \in IdsOf(Stored(h2.post, h2.at))
    /\ h1.ret.id \notin IdsOf(h1.held)
    /\ IdsOf(Stored(ls["jobs"], now)) = {h1.ret.id}

\* C19 (seed before the first read): whenever a page controller reads a
\* collection, in the first page load of App.initialize or a later one,
\* seed() has run its statement for every one of the three namespaces.
C19_SeedBeforeFirstRead ==
    /\ h1.op = "loadPage" => h1.seeded = Len(SeedOrder)
    /\ boot.pc \in {"page", "running"} => boot.seeded = Len(SeedOrder)

\* the first page of a first visit: the collection was empty when
\* initialize() began, and the controller reads the seeded records
C19_Witness ==
    /\ h1.op = "loadPage" /\ h2.op = "none"
    /\ h1.seeded = Len(SeedOrder)
    /\ Len(h1.ret) > 0
    /\ IdsOf(h1.ret) = IdsOf(Fixtures(h1.ns))
    /\ \A i \in 1..Len(h1.ret) : h1.ret[i].updatedAt = h1.at

\* the write of h put the collection under wf:<namespace>_emergency
EmergencyWritten(h) == h.post.emg.kind = "json" /\ h.post.emg # h.pre.emg

\* C20 (one tier at a time): an upsert writes the emergency entry only when
\* the durable store, the session store and the in-memory store have all
\* refused the write.
C20_EmergencyAfterAllTiers ==
    (h1.op = "upsert" /\ EmergencyWritten(h1))
        => /\ {"sec", "wf"} \subseteq h1.full
           /\ "session" \in h1.full
           /\ "memory" \in h1.full

\* h is a save or delete that called setAll, and the secure store or
\* wf:<namespace> took the collection
WroteCollection(h) ==
    /\ h.op \in {"save", "delete"}
    /\ h.ok
    /\ (h.op = "delete" => h.sret)
    /\ ~PrimaryWriteFailed(h)

\* the collection that h wrote: the list it gave to setAll, validated
CollectionWritten(h) == [i \in 1..Len(h.list) |-> validateItem(h.list[i], h.at)]

\* C21 (one snapshot, of the last write): after a save or delete that wrote
\* the collection, backup_wf:<namespace> holds the snapshot taken by that
\* write: its time stamp is the time of the write and its data is the
\* collection written.
C21_SnapshotOfLastWrite ==
    WroteCollection(h1)
        => /\ h1.post.bak.kind = "json"
           /\ h1.post.bak.val.timestamp = h1.at
           /\ h1.post.bak.val.data = CollectionWritten(h1)
           /\ \/ h1.post.wf = Stringify(CollectionWritten(h1))
              \/ h1.post.sec = encrypt(CollectionWritten(h1), h1.at)

\* C21 as amended: the same, unless the write of the snapshot is itself
\* refused; createBackup then logs and swallows the error and the snapshot
\* that was there stays.
C21_SnapshotUnlessRefused ==
    WroteCollection(h1)
        => IF "bak" \in h1.full
           THEN h1.post.bak = h1.pre.bak
           ELSE /\ h1.post.bak.kind = "json"
                /\ h1.post.bak.val.timestamp = h1.at
                /\ h1.post.bak.val.data = CollectionWritten(h1)
                /\ \/ h1.post.wf = Stringify(CollectionWritten(h1))
                   \/ h1.post.sec = encrypt(CollectionWritten(h1), h1.at)

\* a write replaced the snapshot of an earlier write by its own
C21_Witness ==
    /\ WroteCollection(h1) /\ "bak" \notin h1.full
    /\ h1.pre.bak.kind = "json"
    /\ h1.pre.bak.val.data # CollectionWritten(h1)
    /\ h1.post.bak.val.data = CollectionWritten(h1)

\* C22 (TTL expiry): a get of an entry that was set with {ttl: d} at time t
\* returns the value up to t + d; after t + d it returns the default value
\* and the key is removed.
C22_TtlExpiry ==
    (h1.op = "kvGet" /\ kv.last.done /\ kv.last.ttl # NoTtl)
        => IF h1.at <= kv.last.at + kv.last.ttl
           THEN h1.ret = kv.last.value
           ELSE h1.ret = DefaultValue /\ kv.entry = NoItem

\* C23 (maximum length): no string field of a stored record is longer than
\* the maximum length, in the collection and in its snapshot.
C23_MaxLengthStored ==
    \A ns \in Namespaces :
        \A list \in {Stored(ls[ns], now), LastWritten(ls[ns])} :
            \A i \in 1..Len(list) :
                \A k \in TextFields \cap DOMAIN list[i] : Len(list[i][k]) <= maxLength

\* h is a save or delete whose setAll stored the collection under
\* wf:<namespace> after the secure store had refused it
WroteFallback(h) ==
    /\ WroteCollection(h)
    /\ h.post.wf = Stringify(CollectionWritten(h))
    /\ h.post.sec # encrypt(CollectionWritten(h), h.at)

\* C24 (read your writes under fallback): the findAll that follows a write
\* stored under wf:<namespace> returns the records of that write.
C24_ReadYourWrites ==
    (h1.op = "findAll" /\ h1.ns = h2.ns /\ WroteFallback(h2))
        => IdsOf(h1.ret) = IdsOf(CollectionWritten(h2))

\* C25 (reads do not lose data): two findAll calls in a row on a namespace,
\* with no write and no time between them, return the same records.
C25_ReadsKeepData ==
    (h1.op = "findAll" /\ h2.op = "findAll" /\ h1.ns = h2.ns /\ h1.at = h2.at)
        => h1.items = h2.items

\* C26 (fixtures on first run only): a seed() that follows a save or delete
\* which wrote the collection of a namespace writes nothing into that
\* namespace: it leaves there what its getAll() leaves.
C26_SeedOnlyOnce ==
    (h1.op = "seed" /\ WroteCollection(h2))
        => h1.post[h2.ns] = getAll(h1.pre[h2.ns], h1.at, NoQuotaError).st

\* C27 (snapshots are served for 7 days at most): with the primary store
\* corrupted and no save since StartTime, a getAll() made more than 7 days
\* after StartTime returns the empty list.
C27_SnapshotNotServedAfterRetention ==
    (h1.op = "getAll" /\ h1.at - StartTime > BackupRetention) => h1.items = << >>

\* C28 (one page load at a time): at most one _loadPageInternal is in
\* progress, and whenever no continuation is pending, loadingPromise is
\* non-null exactly when a load is in progress.
C28_OneLoadAtATime ==
    /\ Cardinality(router.inProgress) <= 1
    /\ router.microtasks = << >>
          => (router.loadingPromise # NoLoad <=> router.inProgress # {})

\* C29 (logout ends the session): getCurrentUser() called after logout()
\* returns null, whatever keys the two stores held before the logout.
C29_LogoutEndsSession ==
    (h1.op = "getCurrentUser" /\ h2.op = "logout") => h1.ret = NoUser

\* C30 (once means once): a listener registered with once(event, h) is
\* invoked at most one time, whatever emits of the event are made, one
\* after the other or by a listener of the event during an emit of it.
C30_OnceInvokedOnce ==
    \A h \in OnceHandlers : emitter.invoked[h] <= 1

====
